---- MODULE Spec2Model ----
(***************************************************************************)
(* A model of desstv, a decoder of Slow-Scan Television audio.             *)
(*                                                                         *)
(* Units.  spec.py gives every duration in seconds with at most six        *)
(* decimals, and every quotient the code forms from them (PIXEL_TIME,      *)
(* HALF_PIXEL_TIME, centre_window_time) is a whole number of nanoseconds,  *)
(* so durations are integers in nanoseconds.  WINDOW_FACTOR is kept in     *)
(* hundredths.  Frequencies are integers in Hz.  Sample positions are      *)
(* sample indexes.                                                         *)
(*                                                                         *)
(* The Frequency Estimator (_peak_fft_freq) is a windowed FFT of float     *)
(* samples.  It is modelled by what it reports: the variable est holds,    *)
(* for each kind of analysis window and each window start (an index into   *)
(* the buffer as loaded), the peak frequency the estimator returns there.  *)
(* A window est does not list estimates a tone of est.bg, the tones of the *)
(* rest of the recording, which repeat from window start to window start:  *)
(* <<0>> is silence (barycentric_peak_interp returns 0 on a zero           *)
(* spectrum), <<1900>> a steady tone.                                      *)
(***************************************************************************)
EXTENDS Integers, Sequences, FiniteSets, TLC

VARIABLES
    op,           \* the operation applied last ("none" before any)
    sample_rate,  \* SSTVDecoder._sample_rate
    samples,      \* SSTVDecoder._samples: [start, len], a slice of the loaded buffer
    mode,         \* SSTVDecoder.mode: "None" or the name of a mode class
    est,          \* what _peak_fft_freq reports, per window kind and window start
    arg,          \* the arguments of the operation under analysis
    ret           \* what the operation returned or raised

vars == <<op, sample_rate, samples, mode, est, arg, ret>>

(***************************************************************************)
(* Bounds of the model.                                                    *)
(***************************************************************************)
\* calc_lum is applied to every frequency FreqMin..FreqMax (Hz).
FreqMin == 1380
FreqMax == 2420
\* Image decode scans the first MaxLines lines and MaxWidth pixels per channel.
MaxLines == 2
MaxWidth == 2
\* The header search is given buffers with up to MaxCandidates candidate positions.
MaxCandidates == 3
\* The sync aligner is given up to MaxAlignSpan window positions to slide over.
MaxAlignSpan == 6
\* A session calls decode up to MaxDecodes times.
MaxDecodes == 2
MaxShade == 64

\* The sample rates of the sessions analysed; each divides 10^9, so one
\* sample lasts a whole number of nanoseconds.
SampleRates == {500, 1000}

(***************************************************************************)
(* Arithmetic.                                                             *)
(***************************************************************************)
Min(a, b) == IF a <= b THEN a ELSE b
Max(a, b) == IF a >= b THEN a ELSE b
Abs(a) == IF a < 0 THEN -a ELSE a

\* Python's round(n / d) for d > 0: to the nearest integer, ties to even.
RoundDiv(n, d) ==
    LET q == n \div d
        r == n % d
    IN  IF 2 * r < d THEN q
        ELSE IF 2 * r > d THEN q + 1
        ELSE IF q % 2 = 0 THEN q ELSE q + 1

\* One sample's duration in nanoseconds.
SamplePeriod(rate) == 1000000000 \div rate

\* round(t * self._sample_rate) for a duration t in nanoseconds.
ToSamples(t, rate) == RoundDiv(t, SamplePeriod(rate))

(***************************************************************************)
(* spec.py: the mode classes.  A class is the table of the attributes its  *)
(* body assigns; an annotation without a value (NAME: str) assigns none.   *)
(***************************************************************************)
COL_FMT == [RGB |-> 1, GBR |-> 2, YUV |-> 3, BW |-> 4]

ClassNames == {"Martin", "M1", "M2", "Scottie", "S1", "S2", "SDX",
               "RobotColor", "R36", "R72"}

Base(c) ==
    CASE c \in {"M1", "M2"} -> "Martin"
      [] c \in {"S1", "S2", "SDX"} -> "Scottie"
      [] c \in {"R36", "R72"} -> "RobotColor"
      [] OTHER -> "object"

Martin ==
    [COLOR |-> COL_FMT.GBR, SYNC_PULSE |-> 4862000, SYNC_PORCH |-> 572000,
     SEP_PULSE |-> 572000, CHAN_COUNT |-> 3, CHAN_SYNC |-> 0,
     HAS_START_SYNC |-> FALSE, HAS_HALF_SCAN |-> FALSE, HAS_ALT_SCAN |-> FALSE]

M1 ==
    [NAME |-> "Martin 1", LINE_WIDTH |-> 320, LINE_COUNT |-> 256,
     SCAN_TIME |-> 146432000, WINDOW_FACTOR |-> 234]

M2 ==
    [NAME |-> "Martin 2", LINE_WIDTH |-> 320, LINE_COUNT |-> 256,
     SCAN_TIME |-> 73216000, WINDOW_FACTOR |-> 468]

Scottie ==
    [COLOR |-> COL_FMT.GBR, SYNC_PULSE |-> 9000000, SYNC_PORCH |-> 1500000,
     SEP_PULSE |-> 1500000, CHAN_COUNT |-> 3, CHAN_SYNC |-> 2,
     HAS_START_SYNC |-> TRUE, HAS_HALF_SCAN |-> FALSE, HAS_ALT_SCAN |-> FALSE]

S1 ==
    [NAME |-> "Scottie 1", LINE_WIDTH |-> 320, LINE_COUNT |-> 256,
     SCAN_TIME |-> 138240000, WINDOW_FACTOR |-> 248]

S2 ==
    [NAME |-> "Scottie 2", LINE_WIDTH |-> 320, LINE_COUNT |-> 256,
     SCAN_TIME |-> 88064000, WINDOW_FACTOR |-> 382]

SDX ==
    [NAME |-> "Scottie DX", LINE_WIDTH |-> 320, LINE_COUNT |-> 256,
     SCAN_TIME |-> 345600000, WINDOW_FACTOR |-> 98]

RobotColor ==
    [COLOR |-> COL_FMT.YUV, SYNC_PULSE |-> 9000000, SYNC_PORCH |-> 3000000,
     SEP_PULSE |-> 4500000, SEP_PORCH |-> 1500000, CHAN_SYNC |-> 0,
     HAS_START_SYNC |-> FALSE, HAS_HALF_SCAN |-> TRUE]

\* The body of R36 computes its derived attributes itself.
R36 ==
    LET SCAN_TIME == 88000000
        HALF_SCAN_TIME == SCAN_TIME \div 2
        LINE_WIDTH == 320
        CHAN_TIME == RobotColor.SEP_PULSE + SCAN_TIME
        o0 == RobotColor.SYNC_PULSE + RobotColor.SYNC_PORCH
        o1 == o0 + CHAN_TIME + RobotColor.SEP_PORCH
    IN  [NAME |-> "Robot 36 Color", LINE_WIDTH |-> LINE_WIDTH, LINE_COUNT |-> 240,
         SCAN_TIME |-> SCAN_TIME, HALF_SCAN_TIME |-> HALF_SCAN_TIME,
         CHAN_COUNT |-> 2, CHAN_TIME |-> CHAN_TIME,
         CHAN_OFFSETS |-> <<o0, o1>>,
         LINE_TIME |-> o1 + HALF_SCAN_TIME,
         PIXEL_TIME |-> SCAN_TIME \div LINE_WIDTH,
         HALF_PIXEL_TIME |-> HALF_SCAN_TIME \div LINE_WIDTH,
         WINDOW_FACTOR |-> 770, HAS_ALT_SCAN |-> TRUE]

\* The body of R72 assigns no LINE_COUNT.
R72 ==
    LET SCAN_TIME == 138000000
        HALF_SCAN_TIME == SCAN_TIME \div 2
        LINE_WIDTH == 320
        CHAN_TIME == RobotColor.SEP_PULSE + SCAN_TIME
        HALF_CHAN_TIME == RobotColor.SEP_PULSE + HALF_SCAN_TIME
        o0 == RobotColor.SYNC_PULSE + RobotColor.SYNC_PORCH
        o1 == o0 + CHAN_TIME + RobotColor.SEP_PORCH
        o2 == o1 + HALF_CHAN_TIME + RobotColor.SEP_PORCH
    IN  [NAME |-> "Robot 72 Color", LINE_WIDTH |-> LINE_WIDTH,
         SCAN_TIME |-> SCAN_TIME, HALF_SCAN_TIME |-> HALF_SCAN_TIME,
         CHAN_COUNT |-> 3, CHAN_TIME |-> CHAN_TIME, HALF_CHAN_TIME |-> HALF_CHAN_TIME,
         CHAN_OFFSETS |-> <<o0, o1, o2>>,
         LINE_TIME |-> o2 + HALF_SCAN_TIME,
         PIXEL_TIME |-> SCAN_TIME \div LINE_WIDTH,
         HALF_PIXEL_TIME |-> HALF_SCAN_TIME \div LINE_WIDTH,
         WINDOW_FACTOR |-> 488, HAS_ALT_SCAN |-> FALSE]

\* The attributes a class statement assigns.
ClassBody(c) ==
    CASE c = "Martin" -> Martin
      [] c = "M1" -> M1
      [] c = "M2" -> M2
      [] c = "Scottie" -> Scottie
      [] c = "S1" -> S1
      [] c = "S2" -> S2
      [] c = "SDX" -> SDX
      [] c = "RobotColor" -> RobotColor
      [] c = "R36" -> R36
      [] c = "R72" -> R72

\* martin_additional(cls): the attributes it sets on cls, given the
\* attributes cls's class statement assigns.
martin_additional(cls) ==
    LET CHAN_TIME == Martin.SEP_PULSE + cls.SCAN_TIME
        o0 == Martin.SYNC_PULSE + Martin.SYNC_PORCH
        o1 == o0 + CHAN_TIME
        o2 == o1 + CHAN_TIME
    IN  [raised |-> "no",
         set |-> [CHAN_TIME |-> CHAN_TIME,
                  CHAN_OFFSETS |-> <<o0, o1, o2>>,
                  LINE_TIME |-> o2 + CHAN_TIME,
                  PIXEL_TIME |-> cls.SCAN_TIME \div cls.LINE_WIDTH]]

\* scottie_additional(cls): its first statement reads Scottie.SCAN_TIME, an
\* attribute of the base class itself, not of cls; Scottie assigns none and
\* has no base that could, so the read raises and nothing is set.
scottie_additional(cls) ==
    IF "SCAN_TIME" \notin DOMAIN Scottie
    THEN [raised |-> "AttributeError", set |-> <<>>]
    ELSE
    LET CHAN_TIME == Scottie.SEP_PULSE + Scottie.SCAN_TIME
        o0 == Scottie.SYNC_PULSE + Scottie.SYNC_PORCH + CHAN_TIME
        o1 == o0 + CHAN_TIME
        o2 == Scottie.SYNC_PULSE + Scottie.SYNC_PORCH
    IN  [raised |-> "no",
         set |-> [CHAN_TIME |-> CHAN_TIME,
                  CHAN_OFFSETS |-> <<o0, o1, o2>>,
                  LINE_TIME |-> Scottie.SYNC_PULSE + 3 * CHAN_TIME,
                  PIXEL_TIME |-> cls.SCAN_TIME \div cls.LINE_WIDTH]]

\* What the module-level calls martin_additional(M1) .. scottie_additional(SDX) do to cls.
Additional(c) ==
    CASE c = "M1" -> martin_additional(M1)
      [] c = "M2" -> martin_additional(M2)
      [] c = "S1" -> scottie_additional(S1)
      [] c = "S2" -> scottie_additional(S2)
      [] c = "SDX" -> scottie_additional(SDX)
      [] OTHER -> [raised |-> "no", set |-> <<>>]

\* The attributes cls itself holds once its class statement and its
\* *_additional call have run (a call that raises sets nothing).
ClassDict(c) == Additional(c).set @@ ClassBody(c)

\* The attributes cls inherits from its base.
Inherited(c) == IF Base(c) = "object" THEN <<>> ELSE ClassDict(Base(c))

\* The classes of spec.py as the import leaves them, each with the attributes
\* a lookup on it finds: its own first, then those of its base.
Classes == [c \in ClassNames |-> ClassDict(c) @@ Inherited(c)]

\* hasattr(cls, a), for a class cls of Classes: reading cls.a raises
\* AttributeError when it is false.
HasAttr(cls, a) == a \in DOMAIN cls

\* VIS_MAP = {8: R36, 12: R72, 40: M2, 44: M1, 56: S2, 60: S1, 76: SDX}
VIS_MAP ==
    (8 :> "R36") @@ (12 :> "R72") @@ (40 :> "M2") @@ (44 :> "M1") @@
    (56 :> "S2") @@ (60 :> "S1") @@ (76 :> "SDX")

\* The classes VIS_MAP registers.
RegisteredModes == {VIS_MAP[v] : v \in DOMAIN VIS_MAP}

\* The header's timing constants, in nanoseconds.
LEADER_TONE_SIZE == 300000000
BREAK_SIZE == 10000000
VIS_BIT_SIZE == 30000000
BREAK_OFFSET == LEADER_TONE_SIZE
SECOND_LEADER_OFFSET == BREAK_OFFSET + BREAK_SIZE
VIS_START_BIT_OFFSET == BREAK_OFFSET + SECOND_LEADER_OFFSET
HDR_SIZE == VIS_START_BIT_OFFSET + VIS_BIT_SIZE
SEARCH_WINDOW_SIZE == 10000000
JUMP_SIZE == 2000000

(***************************************************************************)
(* decode.py: calc_lum.                                                    *)
(***************************************************************************)
\* The divisor 3.1372549 of calc_lum, times 10^7.
LumDivisor == 31372549

\* floor(n * 10^k / d) and the remainder, by long division (no product
\* exceeds 32 bits for d < 2 * 10^8).
RECURSIVE LongDiv(_, _, _, _)
LongDiv(q, r, d, k) ==
    IF k = 0 THEN <<q, r>>
    ELSE LongDiv(q * 10 + (r * 10) \div d, (r * 10) % d, d, k - 1)

\* round(x / 3.1372549) for an integer x >= 0; the quotient is never a tie,
\* since 2 * x * 10^7 is even and LumDivisor is odd.
RoundLum(x) ==
    LET qr == LongDiv(x \div LumDivisor, x % LumDivisor, LumDivisor, 7)
    IN  IF 2 * qr[2] > LumDivisor THEN qr[1] + 1 ELSE qr[1]

\* calc_lum without its clamp.
calc_lum_unclamped(freq) ==
    IF freq >= 1500 THEN RoundLum(freq - 1500) ELSE -RoundLum(1500 - freq)

calc_lum(freq) ==
    LET lum == IF freq >= 1500 THEN RoundLum(freq - 1500) ELSE -RoundLum(1500 - freq)
    IN  Min(Max(lum, 0), 255)

(***************************************************************************)
(* decode.py: the Frequency Estimator, as est reports it.                  *)
(***************************************************************************)
\* _peak_fft_freq(self._samples[a:b]) for a window of the given kind that
\* starts at index a of the current buffer.
PeakFreq(buf, kind, a) ==
    LET p == buf.start + a
    IN  IF p \in DOMAIN est[kind] THEN est[kind][p] ELSE est.bg[(p % Len(est.bg)) + 1]

NoEst == [hdr |-> <<>>, vis |-> <<>>, sync |-> <<>>, pix |-> <<>>, bg |-> <<0>>]
NoRet == [kind |-> "none"]
WholeBuffer(n) == [start |-> 0, len |-> n]

Raise(err, msg) == [kind |-> "raise", err |-> err, msg |-> msg]

(***************************************************************************)
(* decode.py: _decode_vis.                                                 *)
(***************************************************************************)
RECURSIVE SumSeq(_)
SumSeq(s) == IF s = <<>> THEN 0 ELSE Head(s) + SumSeq(Tail(s))

\* for bit in vis_bits[-2::-1]: vis_value = (vis_value << 1) | bit
\* from index idx (1-based) down to the first bit.
RECURSIVE ShiftIn(_, _, _)
ShiftIn(bits, idx, vis_value) ==
    IF idx = 0 THEN vis_value
    ELSE ShiftIn(bits, idx - 1, 2 * vis_value + bits[idx])

\* The reassembly with the parity bit shifted in as well.
VisValueWithParityBit(vis_bits) == ShiftIn(vis_bits, Len(vis_bits), 0)

VisValue(vis_bits) == ShiftIn(vis_bits, Len(vis_bits) - 1, 0)

\* int(freq <= 1200)
VisBit(freq) == IF freq <= 1200 THEN 1 ELSE 0

\* A parity check over the seven data bits alone.
ParityOverDataBits(vis_bits) == SumSeq(SubSeq(vis_bits, 1, 7)) % 2 = 0

ParityOk(vis_bits) == SumSeq(vis_bits) % 2 = 0

\* A lookup that takes the code modulo 64 (a six-bit code).
LookupModeSixBits(vis_value) ==
    IF vis_value % 64 \notin DOMAIN VIS_MAP
    THEN Raise("ValueError", "unsupported")
    ELSE [kind |-> "value", val |-> VIS_MAP[vis_value % 64]]

\* if vis_value not in spec.VIS_MAP: raise ...; mode = spec.VIS_MAP[vis_value]
LookupMode(vis_value) ==
    IF vis_value \notin DOMAIN VIS_MAP
    THEN Raise("ValueError", "unsupported")
    ELSE [kind |-> "value", val |-> VIS_MAP[vis_value]]

\* _decode_vis(vis_start): the mode class it returns or the error it raises,
\* with its locals vis_bits and vis_value as they stand when it leaves.
decode_vis(buf, vis_start) ==
    LET bit_size == ToSamples(VIS_BIT_SIZE, sample_rate)
        bit_offset(i) == vis_start + i * bit_size
        \* a section that starts at or past the end of the buffer is empty,
        \* and numpy's rfft raises on an empty array
        empty == {i \in 0..7 : bit_offset(i) >= buf.len}
        vis_bits == [i \in 1..8 |-> VisBit(PeakFreq(buf, "vis", bit_offset(i - 1)))]
        vis_value == VisValue(vis_bits)
    IN  IF empty # {}
        THEN Raise("ValueError", "empty section") @@ [vis_bits |-> <<>>, vis_value |-> 0]
        ELSE IF ~ ParityOk(vis_bits)
        THEN Raise("ValueError", "invalid parity bit") @@ [vis_bits |-> vis_bits, vis_value |-> 0]
        ELSE LookupMode(vis_value) @@ [vis_bits |-> vis_bits, vis_value |-> vis_value]

(***************************************************************************)
(* decode.py: _find_header.                                                *)
(***************************************************************************)
\* The four frequency checks of the header test, with the bounds included.
HeaderTonesMatchInclusive(buf, current_sample) ==
    LET rate == sample_rate
        break_offset == ToSamples(BREAK_OFFSET, rate)
        leader_2_offset == ToSamples(SECOND_LEADER_OFFSET, rate)
        vis_start_offset == ToSamples(VIS_START_BIT_OFFSET, rate)
    IN  /\ Abs(PeakFreq(buf, "hdr", current_sample) - 1900) <= 50
        /\ Abs(PeakFreq(buf, "hdr", current_sample + break_offset) - 1200) <= 50
        /\ Abs(PeakFreq(buf, "hdr", current_sample + leader_2_offset) - 1900) <= 50
        /\ Abs(PeakFreq(buf, "hdr", current_sample + vis_start_offset) - 1200) <= 50

\* The four frequency checks on the search area that starts at
\* current_sample; the sub-windows lie inside the area, which lies inside
\* the buffer for every candidate of the loop.
HeaderTonesMatch(buf, current_sample) ==
    LET rate == sample_rate
        break_offset == ToSamples(BREAK_OFFSET, rate)
        leader_2_offset == ToSamples(SECOND_LEADER_OFFSET, rate)
        vis_start_offset == ToSamples(VIS_START_BIT_OFFSET, rate)
    IN  /\ Abs(PeakFreq(buf, "hdr", current_sample) - 1900) < 50
        /\ Abs(PeakFreq(buf, "hdr", current_sample + break_offset) - 1200) < 50
        /\ Abs(PeakFreq(buf, "hdr", current_sample + leader_2_offset) - 1900) < 50
        /\ Abs(PeakFreq(buf, "hdr", current_sample + vis_start_offset) - 1200) < 50

\* for current_sample in range(0, stop, jump_size): ... return
\* current_sample + header_size at the first candidate that matches.  The
\* loop is given by where it ends (a buffer holds hundreds of candidates):
\* tested lists the candidates in the order the loop tested them.
HeaderLoop(buf, stop, jump_size, header_size) ==
    LET count == IF stop <= 0 THEN 0 ELSE (stop + jump_size - 1) \div jump_size
        candidate(i) == (i - 1) * jump_size
    IN  IF \E i \in 1..count : HeaderTonesMatch(buf, candidate(i))
        THEN LET first == CHOOSE i \in 1..count :
                              /\ HeaderTonesMatch(buf, candidate(i))
                              /\ \A k \in 1..(i - 1) : ~ HeaderTonesMatch(buf, candidate(k))
             IN  [kind |-> "value", val |-> candidate(first) + header_size,
                  tested |-> [i \in 1..first |-> candidate(i)]]
        ELSE [kind |-> "None", tested |-> [i \in 1..count |-> candidate(i)]]

\* _find_header(): the offset of the end of the header, or None.
find_header(buf) ==
    LET jump_size == ToSamples(JUMP_SIZE, sample_rate)
        header_size == ToSamples(HDR_SIZE, sample_rate)
    IN  IF jump_size = 0
        THEN Raise("ValueError", "range() arg 3 must not be zero") @@ [tested |-> <<>>]
        ELSE HeaderLoop(buf, buf.len - header_size, jump_size, header_size)

(***************************************************************************)
(* decode.py: _align_sync.                                                 *)
(***************************************************************************)
\* round(self.mode.SYNC_PULSE * 1.4 * self._sample_rate)
SyncWindow(m) == RoundDiv(m.SYNC_PULSE * 14, SamplePeriod(sample_rate) * 10)

\* for current_sample in range(align_start, align_stop): break at the first
\* window whose peak exceeds 1350 Hz.  The value is where the loop leaves
\* current_sample: the first such position, or the last position of the
\* range when the loop runs to its end (the range is not empty).
AlignLoop(buf, align_start, align_stop) ==
    IF \E p \in align_start..(align_stop - 1) : PeakFreq(buf, "sync", p) > 1350
    THEN [pos |-> CHOOSE p \in align_start..(align_stop - 1) :
                      /\ PeakFreq(buf, "sync", p) > 1350
                      /\ \A q \in align_start..(p - 1) : ~ (PeakFreq(buf, "sync", q) > 1350),
          found |-> TRUE]
    ELSE [pos |-> align_stop - 1, found |-> FALSE]

\* _align_sync(align_start, start_of_sync) in mode m: the offset it returns,
\* or None; pos and found are where and how its loop ended.
align_sync(buf, m, align_start, start_of_sync) ==
    LET sync_window == SyncWindow(m)
        align_stop == buf.len - sync_window
    IN  IF align_stop <= align_start
        THEN [kind |-> "None"]
        ELSE
        LET at == AlignLoop(buf, align_start, align_stop)
            end_sync == at.pos + (sync_window \div 2)
        IN  [kind |-> "value",
             val |-> IF start_of_sync
                     THEN end_sync - ToSamples(m.SYNC_PULSE, sample_rate)
                     ELSE end_sync,
             pos |-> at.pos, found |-> at.found]

(***************************************************************************)
(* decode.py: _decode_image_data.                                          *)
(***************************************************************************)
\* round(seq_start + t * self._sample_rate) for a duration t in nanoseconds.
RoundAt(seq_start, t, rate) ==
    LET d == SamplePeriod(rate)
        base == seq_start + (t \div d)
        r == t % d
    IN  IF 2 * r < d THEN base
        ELSE IF 2 * r > d THEN base + 1
        ELSE IF base % 2 = 0 THEN base ELSE base + 1

\* The lines and the pixels per channel the model scans: the first MaxLines
\* lines of the mode's LINE_COUNT, the first MaxWidth pixels of its LINE_WIDTH.
ScanHeight(m) == Min(m.LINE_COUNT, MaxLines)
ScanWidth(m) == Min(m.LINE_WIDTH, MaxWidth)

\* image_data = [[[0 for i in range(width)] for j in range(channels)] for k in range(height)]
Cells(m) ==
    (0..(ScanHeight(m) - 1)) \X (0..(m.CHAN_COUNT - 1)) \X (0..(ScanWidth(m) - 1))

ZeroImage(m) == [c \in Cells(m) |-> 0]

\* pixel_time of a channel: HALF_PIXEL_TIME for the second and third scans
\* of a mode with half scans.
PixelTime(m, chan) ==
    IF m.HAS_HALF_SCAN /\ chan > 0
    THEN m.HALF_PIXEL_TIME
    ELSE m.PIXEL_TIME

\* centre_window_time = (pixel_time * window_factor) / 2, a whole number of
\* nanoseconds for every mode.
CentreWindowTime(m, pixel_time) == (pixel_time * m.WINDOW_FACTOR) \div 200

\* pixel_window = round(pixel_time * window_factor * self._sample_rate)
PixelWindow(m, pixel_time) ==
    RoundDiv(pixel_time * m.WINDOW_FACTOR, 100 * SamplePeriod(sample_rate))

\* px_pos = round(seq_start + (chan_offset + px * pixel_time - centre_window_time) * rate)
PxPos(m, seq_start, chan, px) ==
    LET pixel_time == PixelTime(m, chan)
    IN  RoundAt(seq_start,
                m.CHAN_OFFSETS[chan + 1] + px * pixel_time
                - CentreWindowTime(m, pixel_time),
                sample_rate)

\* What _decode_image_data returns: the buffer, whether the scan ran to its
\* end, where it stopped and why, the cells in the order they were written,
\* and the alignments made (from the approximate offset to the aligned one).
Returned(acc, complete, line, chan, px, why) ==
    [kind |-> "value", val |-> acc.image, complete |-> complete,
     stop |-> [line |-> line, chan |-> chan, px |-> px, why |-> why],
     writes |-> acc.writes, aligns |-> acc.aligns]

\* A channel head that does not advance seq_start by LINE_TIME before it
\* aligns: every line is aligned from where the line before was aligned.
ChanHeadWithoutAdvance(buf, m, line, chan, seq_start) ==
    LET back == IF chan = 0 /\ m.CHAN_SYNC > 0 /\ line = 0
                THEN ToSamples(m.CHAN_OFFSETS[m.CHAN_SYNC + 1]
                               + m.SCAN_TIME, sample_rate)
                ELSE 0
        s0 == seq_start - back
        a == align_sync(buf, m, s0, TRUE)
    IN  IF chan # m.CHAN_SYNC
        THEN [kind |-> "value", val |-> s0, aligned |-> FALSE]
        ELSE IF a.kind = "None"
        THEN [kind |-> "None"]
        ELSE [kind |-> "value", val |-> a.val, aligned |-> TRUE,
              log |-> [line |-> line, chan |-> chan, start |-> s0,
                       val |-> a.val, found |-> a.found]]

\* The head of a channel's iteration, before its pixels: the walk back to
\* the previous sync pulse (if CHAN_SYNC > 0 and line == 0, on channel 0) and,
\* on the channel CHAN_SYNC, the advance by LINE_TIME (if line > 0 or
\* chan > 0) and the alignment to the start of the sync pulse.  The value is
\* the new seq_start, or None when the alignment ran out of samples.
ChanHead(buf, m, line, chan, seq_start) ==
    LET back == IF chan = 0 /\ m.CHAN_SYNC > 0 /\ line = 0
                THEN ToSamples(m.CHAN_OFFSETS[m.CHAN_SYNC + 1]
                               + m.SCAN_TIME, sample_rate)
                ELSE 0
        s0 == seq_start - back
        s1 == IF line > 0 \/ chan > 0
              THEN s0 + ToSamples(m.LINE_TIME, sample_rate)
              ELSE s0
        a == align_sync(buf, m, s1, TRUE)
    IN  IF chan # m.CHAN_SYNC
        THEN [kind |-> "value", val |-> s0, aligned |-> FALSE]
        ELSE IF a.kind = "None"
        THEN [kind |-> "None"]
        ELSE [kind |-> "value", val |-> a.val, aligned |-> TRUE,
              log |-> [line |-> line, chan |-> chan, start |-> s1,
                       val |-> a.val, found |-> a.found]]

\* The buffer's bookkeeping after a channel head.
AfterHead(acc, head) ==
    IF head.aligned THEN [acc EXCEPT !.aligns = Append(@, head.log)] ELSE acc

\* px_end = px_pos + pixel_window
PxEnd(m, seq_start, chan, px) ==
    PxPos(m, seq_start, chan, px) + PixelWindow(m, PixelTime(m, chan))

\* A write that lands in the first cell of the channel whatever px is.
WritePixelFirstColumn(buf, m, seq_start, acc, line, chan, px) ==
    [acc EXCEPT !.image[<<line, chan, 0>>] =
                    calc_lum(PeakFreq(buf, "pix", PxPos(m, seq_start, chan, px))),
                !.writes = Append(@, <<line, chan, 0>>)]

\* image_data[line][chan][px] = calc_lum(self._peak_fft_freq(pixel_area))
WritePixel(buf, m, seq_start, acc, line, chan, px) ==
    [acc EXCEPT !.image[<<line, chan, px>>] =
                    calc_lum(PeakFreq(buf, "pix", PxPos(m, seq_start, chan, px))),
                !.writes = Append(@, <<line, chan, px>>)]

\* A point of the loops over lines, channels and pixels; px = -1 is the
\* head of a channel's iteration, before its pixels.
At(line, chan, px, seq_start, acc) ==
    [kind |-> "at", line |-> line, chan |-> chan, px |-> px,
     seq_start |-> seq_start, acc |-> acc]

\* One step of the loops from the point at: the next point, or what the
\* function returns or raises there.
Step(buf, m, at) ==
    LET line == at.line
        chan == at.chan
        px == at.px
        seq_start == at.seq_start
        acc == at.acc
        head == ChanHead(buf, m, line, chan, seq_start)
        px_pos == PxPos(m, seq_start, chan, px)
        px_end == PxEnd(m, seq_start, chan, px)
    IN  IF line >= ScanHeight(m)
        THEN Returned(acc, TRUE, line, 0, 0, "done")
        ELSE IF chan >= m.CHAN_COUNT
        THEN At(line + 1, 0, -1, seq_start, acc)
        ELSE IF px = -1
        THEN IF head.kind = "None"
             THEN Returned(acc, FALSE, line, chan, 0, "sync")
             ELSE At(line, chan, 0, head.val, AfterHead(acc, head))
        ELSE IF px >= ScanWidth(m)
        THEN At(line, chan + 1, -1, seq_start, acc)
        ELSE IF px_end >= buf.len
        THEN Returned(acc, FALSE, line, chan, px, "pixel")
        ELSE IF px_end <= px_pos \/ px_pos < 0
        THEN Raise("ValueError", "empty section")
        ELSE At(line, chan, px + 1, seq_start,
                WritePixel(buf, m, seq_start, acc, line, chan, px))

\* The loops run from a point until the function returns or raises.
RECURSIVE Scan(_, _, _)
Scan(buf, m, at) == IF at.kind = "at" THEN Scan(buf, m, Step(buf, m, at)) ELSE at

\* The attributes the statements before the loops read, and those the loops read.
HeadAttrs == {"WINDOW_FACTOR", "PIXEL_TIME", "LINE_COUNT", "CHAN_COUNT", "LINE_WIDTH",
              "HAS_START_SYNC"}
LoopAttrs(m) ==
    {"CHAN_SYNC", "CHAN_OFFSETS", "SCAN_TIME", "LINE_TIME", "HAS_HALF_SCAN", "SYNC_PULSE"}
    \cup (IF HasAttr(m, "HAS_HALF_SCAN") /\ m.HAS_HALF_SCAN
          THEN {"HALF_PIXEL_TIME"} ELSE {})

\* The first image sample: aligned to the end of the leading sync pulse when
\* the mode has one.
FirstSync(buf, m, image_start) ==
    IF m.HAS_START_SYNC
    THEN align_sync(buf, m, image_start, FALSE)
    ELSE [kind |-> "value", val |-> image_start]

\* _decode_image_data(image_start) with self.mode the class m.
decode_image_data(buf, m, image_start) ==
    IF \E a \in HeadAttrs : ~ HasAttr(m, a)
    THEN Raise("AttributeError", "mode attribute")
    ELSE IF FirstSync(buf, m, image_start).kind = "None"
    THEN Raise("EOFError", "Reached end of audio before image data")
    ELSE IF \E a \in LoopAttrs(m) : ~ HasAttr(m, a)
    THEN Raise("AttributeError", "mode attribute")
    ELSE Scan(buf, m, At(0, 0, -1, FirstSync(buf, m, image_start).val,
                    [image |-> ZeroImage(m), writes |-> <<>>, aligns |-> <<>>]))

(***************************************************************************)
(* decode.py: _draw_image.                                                 *)
(***************************************************************************)
\* image_data[line][chan][px].  The buffer has LINE_COUNT lines; those past
\* the lines the model scans are never written and hold their initial 0.
Cell(image_data, line, chan, px) ==
    IF <<line, chan, px>> \in DOMAIN image_data THEN image_data[<<line, chan, px>>] ELSE 0

\* Whether one of the branches of the loop body assigns pixel; the branch
\* taken depends on the mode alone.
PixelBound(m) ==
    \/ m.CHAN_COUNT = 2 /\ m.HAS_ALT_SCAN /\ m.COLOR = COL_FMT.YUV
    \/ m.CHAN_COUNT = 3 /\ m.COLOR \in {COL_FMT.GBR, COL_FMT.YUV, COL_FMT.RGB}

\* The lines the alternate-scan branch reads for line y: image_data[y],
\* image_data[y - (odd_line - 1)] and image_data[y - odd_line], odd_line = y % 2.
AltScanLines(y) == <<y, y - ((y % 2) - 1), y - (y % 2)>>

\* A two-channel tuple that takes both chroma components from line y itself.
PixelAtSameLine(m, image_data, x, y) ==
    IF m.CHAN_COUNT = 2
    THEN <<Cell(image_data, y, 0, x), Cell(image_data, y, 1, x), Cell(image_data, y, 1, x)>>
    ELSE <<Cell(image_data, y, 2, x), Cell(image_data, y, 0, x), Cell(image_data, y, 1, x)>>

\* The tuple assigned to pixel_data[x, y].
PixelAt(m, image_data, x, y) ==
    IF m.CHAN_COUNT = 2
    THEN <<Cell(image_data, AltScanLines(y)[1], 0, x),
           Cell(image_data, AltScanLines(y)[2], 1, x),
           Cell(image_data, AltScanLines(y)[3], 1, x)>>
    ELSE IF m.COLOR = COL_FMT.GBR
    THEN <<Cell(image_data, y, 2, x), Cell(image_data, y, 0, x), Cell(image_data, y, 1, x)>>
    ELSE IF m.COLOR = COL_FMT.YUV
    THEN <<Cell(image_data, y, 0, x), Cell(image_data, y, 2, x), Cell(image_data, y, 1, x)>>
    ELSE <<Cell(image_data, y, 0, x), Cell(image_data, y, 1, x), Cell(image_data, y, 2, x)>>

\* _draw_image(image_data) with self.mode the class m: the image, given by
\* the colour space it was assembled in and the tuples assembled (PIL
\* converts a YCbCr image to RGB before it is returned), or the error of
\* reading a pixel no branch has assigned.
draw_image(m, image_data) ==
    IF ~ PixelBound(m)
    THEN Raise("UnboundLocalError", "pixel")
    ELSE [kind |-> "value",
          val |-> [col_mode |-> IF m.COLOR = COL_FMT.YUV THEN "YCbCr" ELSE "RGB",
                   mode |-> "RGB",
                   pixel_data |-> [xy \in (0..(ScanWidth(m) - 1)) \X (0..(ScanHeight(m) - 1)) |->
                                      PixelAt(m, image_data, xy[1], xy[2])]]]

(***************************************************************************)
(* decode.py: decode.                                                      *)
(***************************************************************************)
\* self._samples[round(skip * self._sample_rate):] for a skip of k samples.
Skipped(buffer, k) ==
    [start |-> buffer.start + Min(k, buffer.len), len |-> buffer.len - Min(k, buffer.len)]

\* How decode leaves: what it returns or raises, the stages it ran, in the
\* order it ran them, and the class it assigned to self.mode, if any.
Leaves(r, stages, assigned) ==
    [ret |-> r @@ [stages |-> stages], mode |-> assigned]

\* return self._draw_image(image_data), unless the image decode raised.
AfterImage(m, image_data) ==
    IF image_data.kind = "raise"
    THEN Leaves(image_data, <<"find_header", "decode_vis", "decode_image_data">>, m)
    ELSE Leaves(draw_image(Classes[m], image_data.val),
                <<"find_header", "decode_vis", "decode_image_data", "draw_image">>, m)

\* self.mode = self._decode_vis(header_end), then the image decode at
\* header_end + round(spec.VIS_BIT_SIZE * 9 * self._sample_rate).
AfterVis(buf, header_end, vis) ==
    IF vis.kind = "raise"
    THEN Leaves(vis, <<"find_header", "decode_vis">>, "unassigned")
    ELSE AfterImage(vis.val,
                    decode_image_data(buf, Classes[vis.val],
                                      header_end + ToSamples(9 * VIS_BIT_SIZE, sample_rate)))

\* A header search that raises instead of reporting that it found nothing.
AfterHeaderRaising(buf, header) ==
    IF header.kind = "None"
    THEN Leaves(Raise("ValueError", "no header"), <<"find_header">>, "unassigned")
    ELSE IF header.kind = "raise"
    THEN Leaves(header, <<"find_header">>, "unassigned")
    ELSE AfterVis(buf, header.val, decode_vis(buf, header.val))

\* if header_end is None: return None
AfterHeader(buf, header) ==
    IF header.kind = "None"
    THEN Leaves([kind |-> "value", val |-> "None"], <<"find_header">>, "unassigned")
    ELSE IF header.kind = "raise"
    THEN Leaves(header, <<"find_header">>, "unassigned")
    ELSE AfterVis(buf, header.val, decode_vis(buf, header.val))

\* decode, from header_end = self._find_header() on.
decode(buf) == AfterHeader(buf, find_header(buf))

(***************************************************************************)
(* Specification SpecLum: calc_lum applied to every frequency of the range.*)
(***************************************************************************)
InitLum ==
    /\ op = "none"
    /\ sample_rate = 1000
    /\ samples = WholeBuffer(0)
    /\ mode = "None"
    /\ est = NoEst
    /\ arg \in [freq : FreqMin..FreqMax]
    /\ ret = NoRet

CalcLum ==
    /\ op = "none"
    /\ op' = "calc_lum"
    /\ ret' = [kind |-> "value", val |-> calc_lum(arg.freq)]
    /\ UNCHANGED <<sample_rate, samples, mode, est, arg>>

NextLum == CalcLum

SpecLum == InitLum /\ [][NextLum]_vars

(***************************************************************************)
(* Specification SpecVis: the VIS decode step of decode, on every word of  *)
(* VIS tones, in a session that has resolved no mode yet.                  *)
(***************************************************************************)
\* The tones the eight VIS slots are drawn from: 1100 Hz (1), the 1200 Hz
\* threshold itself, and 1300 Hz (0).
VisTones == {1100, 1200, 1300}

\* The sample offsets of the eight VIS slots after a header found at 0.
VisSlots(rate) ==
    {ToSamples(HDR_SIZE, rate) + i * ToSamples(VIS_BIT_SIZE, rate) : i \in 0..7}

InitVis ==
    /\ op = "none"
    /\ sample_rate \in SampleRates
    /\ \E cut \in {3, 9} :
          samples = WholeBuffer(ToSamples(HDR_SIZE, sample_rate)
                                + cut * ToSamples(VIS_BIT_SIZE, sample_rate))
    /\ mode = "None"
    /\ \E tones \in [VisSlots(sample_rate) -> VisTones] :
          est = [NoEst EXCEPT !.vis = tones]
    /\ arg = [header_end |-> ToSamples(HDR_SIZE, sample_rate)]
    /\ ret = NoRet

\* decode, line 77: self.mode = self._decode_vis(header_end)
DecodeVis ==
    /\ op = "none"
    /\ op' = "decode_vis"
    /\ ret' = decode_vis(samples, arg.header_end)
    /\ mode' = IF ret'.kind = "value" THEN ret'.val ELSE mode
    /\ UNCHANGED <<sample_rate, samples, est, arg>>

NextVis == DecodeVis

SpecVis == InitVis /\ [][NextVis]_vars

(***************************************************************************)
(* Specification SpecImg: image decode in every registered mode, on every  *)
(* buffer length from one that ends before the image to one that holds the *)
(* lines scanned, over four recordings.                                    *)
(***************************************************************************)
\* image_start when the header was found at 0.
ImageStart(rate) == ToSamples(HDR_SIZE, rate) + ToSamples(9 * VIS_BIT_SIZE, rate)

\* The samples the scanned lines of mode m take, when m has a line duration.
ScanSpan(m, rate) ==
    IF HasAttr(m, "LINE_TIME") /\ HasAttr(m, "LINE_COUNT")
    THEN MaxLines * ToSamples(m.LINE_TIME, rate)
    ELSE 0

\* The sync windows that read the 1200 Hz sync tone when each line's pulse
\* comes d samples later than the line before it: three window positions
\* from the start of each pulse.
SyncLows(m, rate, d) ==
    IF HasAttr(m, "LINE_TIME")
    THEN {ImageStart(rate) + k * (ToSamples(m.LINE_TIME, rate) + d) + i :
             k \in 0..MaxLines, i \in 0..2}
    ELSE {}

\* The recordings: silence; a steady 1900 Hz tone; lines whose sync pulses
\* arrive on time (d = 0) or late (d = 1) in a picture whose windows read
\* 1900, 1700 and 2300 Hz in turn.
Recordings(m, rate) ==
    {NoEst, [NoEst EXCEPT !.bg = <<1900>>]}
    \cup {[NoEst EXCEPT !.bg = <<1900, 1700, 2300>>,
                        !.sync = [p \in SyncLows(m, rate, d) |-> 1200]] : d \in {0, 1}}

InitImg ==
    /\ op = "none"
    /\ sample_rate \in SampleRates
    /\ mode \in RegisteredModes
    /\ \E n \in (ImageStart(sample_rate) - 1) ..
                 (ImageStart(sample_rate) + ScanSpan(Classes[mode], sample_rate) + 3 * SyncWindow(Classes[mode])) :
          samples = WholeBuffer(n)
    /\ est \in Recordings(Classes[mode], sample_rate)
    /\ arg = [image_start |-> ImageStart(sample_rate)]
    /\ ret = NoRet

\* decode, line 82: image_data = self._decode_image_data(vis_end_offset)
DecodeImageData ==
    /\ op = "none"
    /\ op' = "decode_image_data"
    /\ ret' = decode_image_data(samples, Classes[mode], arg.image_start)
    /\ UNCHANGED <<sample_rate, samples, mode, est, arg>>

NextImg == DecodeImageData

SpecImg == InitImg /\ [][NextImg]_vars

(***************************************************************************)
(* Properties of the VIS decoder, under SpecVis.                           *)
(***************************************************************************)
VisDecoded == op = "decode_vis" /\ ret.vis_bits # <<>>
InvalidParity(r) == r.kind = "raise" /\ r.msg = "invalid parity bit"
Unsupported(r) == r.kind = "raise" /\ r.msg = "unsupported"
Flip(bits, i) == [bits EXCEPT ![i] = 1 - bits[i]]

\* C1: once its eight slots are classified, _decode_vis raises the invalid
\* parity error exactly when the eight bits sum to an odd number; so a word
\* that passes turns into a failing word when any one of its bits is flipped.
C1_ParityExactlyWhenOdd ==
    VisDecoded =>
        /\ InvalidParity(ret) <=> (SumSeq(ret.vis_bits) % 2 = 1)
        /\ ~ InvalidParity(ret) =>
              \A i \in 1..8 : ~ ParityOk(Flip(ret.vis_bits, i))

C1_Witness ==
    /\ VisDecoded
    /\ InvalidParity(ret)
    /\ ret.vis_bits = <<0, 0, 1, 1, 0, 1, 0, 0>>

\* C2: for a word that passes parity the VIS value is b0 + 2 b1 + .. + 64 b6,
\* b0 being the bit received first; the parity bit b7 adds nothing and the
\* value lies in 0..127.
C2_LsbFirstValue ==
    VisDecoded /\ ~ InvalidParity(ret) =>
        LET b == ret.vis_bits
        IN  /\ ret.vis_value = b[1] + 2 * b[2] + 4 * b[3] + 8 * b[4]
                                + 16 * b[5] + 32 * b[6] + 64 * b[7]
            /\ ret.vis_value \in 0..127

C2_Witness ==
    /\ VisDecoded
    /\ ret.vis_bits = <<0, 0, 1, 1, 0, 1, 0, 1>>
    /\ ret.vis_value = 44

\* C3: a word that passes parity resolves to the class registered under its
\* value when the value is one of 8, 12, 40, 44, 56, 60, 76 and raises the
\* unsupported-code error otherwise; the registry maps no two codes to one
\* class; and a VIS decode that raises leaves self.mode absent.
C3_LookupOrUnsupported ==
    /\ DOMAIN VIS_MAP = {8, 12, 40, 44, 56, 60, 76}
    /\ \A a, b \in DOMAIN VIS_MAP : VIS_MAP[a] = VIS_MAP[b] => a = b
    /\ VisDecoded /\ ~ InvalidParity(ret) =>
          IF ret.vis_value \in {8, 12, 40, 44, 56, 60, 76}
          THEN ret.kind = "value" /\ ret.val = VIS_MAP[ret.vis_value] /\ mode = ret.val
          ELSE Unsupported(ret)
    /\ op = "decode_vis" /\ ret.kind = "raise" => mode = "None"

C3_Witness ==
    /\ VisDecoded
    /\ ret.vis_value = 76
    /\ ret.kind = "value"
    /\ mode = "SDX"

\* The line duration and the channel offsets of a class exist, are strictly
\* positive, and the offsets increase strictly with the channel index.
DerivedFieldsOrdered(c) ==
    /\ HasAttr(Classes[c], "LINE_TIME") /\ HasAttr(Classes[c], "CHAN_OFFSETS")
    /\ Classes[c].LINE_TIME > 0
    /\ LET o == Classes[c].CHAN_OFFSETS
       IN  /\ \A i \in DOMAIN o : o[i] > 0
           /\ \A i, j \in DOMAIN o : i < j => o[i] < o[j]

\* C8: every mode the VIS decoder can resolve has a strictly positive line
\* duration and strictly positive, strictly increasing channel offsets.
C8_DerivedFieldsOfResolvedMode ==
    mode # "None" => DerivedFieldsOrdered(mode)

\* The class was built without an error, has its channel time, channel
\* offsets and line duration, and its channel time is the separator pulse
\* of its family plus its own SCAN_TIME.
BuiltFromOwnScanTime(c) ==
    /\ Additional(c).raised = "no"
    /\ \A a \in {"CHAN_TIME", "CHAN_OFFSETS", "LINE_TIME"} : HasAttr(Classes[c], a)
    /\ Classes[c].CHAN_TIME = Classes[Base(c)].SEP_PULSE + Classes[c].SCAN_TIME

\* C12: every registered mode is constructed without an error, with channel
\* time, channel offsets and line duration, and its channel time equals the
\* separator pulse of its family plus the variant's own SCAN_TIME.
C12_ChanTimeFromVariantScanTime ==
    mode # "None" => BuiltFromOwnScanTime(mode)

(***************************************************************************)
(* Properties of calc_lum, under SpecLum.                                  *)
(***************************************************************************)
\* C7: calc_lum returns an integer in 0..255, never decreases as the
\* frequency grows, is 0 up to 1500 Hz, 255 from 2300 Hz on, and 127, 128 or
\* 129 at 1900 Hz.
C7_LumRangeMonotone ==
    op = "calc_lum" =>
        /\ ret.val \in 0..255
        /\ arg.freq <= 1500 => ret.val = 0
        /\ arg.freq >= 2300 => ret.val = 255
        /\ arg.freq = 1900 => ret.val \in {127, 128, 129}
        /\ \A g \in FreqMin..FreqMax : g <= arg.freq => calc_lum(g) <= ret.val

C7_Witness ==
    /\ op = "calc_lum"
    /\ arg.freq = 1900
    /\ ret.val = 128

(***************************************************************************)
(* Specification SpecHdr: the header search on buffers with up to          *)
(* MaxCandidates candidate positions, whatever the four sub-windows of     *)
(* each candidate estimate.                                                *)
(***************************************************************************)
\* What the leader-1, break, leader-2 and VIS-start sub-windows of one
\* candidate estimate: a header (each tone 49 Hz off), or a header with one
\* of the four tones exactly 50 Hz off.
HdrPatterns ==
    {<<1851, 1249, 1949, 1151>>, <<1850, 1249, 1949, 1151>>,
     <<1851, 1250, 1949, 1151>>, <<1851, 1249, 1950, 1151>>,
     <<1851, 1249, 1949, 1150>>}

SubWindowOffsets(rate) ==
    <<0, ToSamples(BREAK_OFFSET, rate), ToSamples(SECOND_LEADER_OFFSET, rate),
      ToSamples(VIS_START_BIT_OFFSET, rate)>>

\* The estimates of the sub-windows of candidates 0..MaxCandidates-1, when
\* candidate k shows pattern pat[k].
HdrEstimates(rate, pat) ==
    [p \in {k * ToSamples(JUMP_SIZE, rate) + SubWindowOffsets(rate)[i] :
                k \in 0..(MaxCandidates - 1), i \in 1..4} |->
        LET ki == CHOOSE ki \in (0..(MaxCandidates - 1)) \X (1..4) :
                      p = ki[1] * ToSamples(JUMP_SIZE, rate) + SubWindowOffsets(rate)[ki[2]]
        IN  pat[ki[1]][ki[2]]]

InitHdr ==
    /\ op = "none"
    /\ sample_rate \in SampleRates
    /\ \E n \in (ToSamples(HDR_SIZE, sample_rate) - 1) ..
                 (ToSamples(HDR_SIZE, sample_rate)
                  + (MaxCandidates - 1) * ToSamples(JUMP_SIZE, sample_rate) + 1) :
          samples = WholeBuffer(n)
    /\ mode = "None"
    /\ \E pat \in [0..(MaxCandidates - 1) -> HdrPatterns] :
          est = [NoEst EXCEPT !.hdr = HdrEstimates(sample_rate, pat)]
    /\ arg = [skip |-> 0]
    /\ ret = NoRet

\* decode, line 72: header_end = self._find_header()
FindHeader ==
    /\ op = "none"
    /\ op' = "find_header"
    /\ ret' = find_header(samples)
    /\ UNCHANGED <<sample_rate, samples, mode, est, arg>>

NextHdr == FindHeader

SpecHdr == InitHdr /\ [][NextHdr]_vars

(***************************************************************************)
(* Specification SpecAlign: the sync aligner in every registered mode, on  *)
(* buffers that leave it up to MaxAlignSpan window positions.              *)
(***************************************************************************)
\* What a sync window estimates: the 1350 Hz threshold itself, or just above.
SyncTones == {1350, 1351}

AlignStarts == {0, 3}

InitAlign ==
    /\ op = "none"
    /\ sample_rate \in SampleRates
    /\ mode \in RegisteredModes
    /\ \E a \in AlignStarts, b \in BOOLEAN :
          /\ arg = [align_start |-> a, start_of_sync |-> b]
          /\ \E n \in (a + SyncWindow(Classes[mode]) - 1) .. (a + SyncWindow(Classes[mode]) + MaxAlignSpan) :
                samples = WholeBuffer(n)
          /\ \E tones \in [a .. (a + MaxAlignSpan - 1) -> SyncTones] :
                est = [NoEst EXCEPT !.sync = tones]
    /\ ret = NoRet

AlignSync ==
    /\ op = "none"
    /\ op' = "align_sync"
    /\ ret' = align_sync(samples, Classes[mode], arg.align_start, arg.start_of_sync)
    /\ UNCHANGED <<sample_rate, samples, mode, est, arg>>

NextAlign == AlignSync

SpecAlign == InitAlign /\ [][NextAlign]_vars

(***************************************************************************)
(* Specification Spec: sessions that call decode, with or without a skip,  *)
(* on recordings of a transmission (a header, a VIS word and two lines of  *)
(* picture) and on recordings that hold none, cut at several lengths.      *)
(***************************************************************************)
\* The eight bits of the VIS word of a code, least significant bit first,
\* closed by a parity bit that makes the number of ones even (good) or odd.
VisWord(code, good) ==
    LET data == [i \in 1..7 |-> (code \div (2 ^ (i - 1))) % 2]
    IN  Append(data, IF good THEN SumSeq(data) % 2 ELSE 1 - (SumSeq(data) % 2))

\* The words transmitted: Martin 1, Robot 36, Scottie 1, Robot 72, a code no
\* mode has, and Martin 1 with its parity bit flipped.
VisWords ==
    {VisWord(44, TRUE), VisWord(8, TRUE), VisWord(60, TRUE), VisWord(12, TRUE),
     VisWord(0, TRUE), VisWord(44, FALSE)}

\* Where the transmission starts in the recording: at once, or two search steps in.
HeaderStarts(rate) == {0, 2 * ToSamples(JUMP_SIZE, rate)}

\* The class a word announces: the sync pulses of the picture follow its line duration.
Announced(word) ==
    IF ParityOk(word) /\ VisValue(word) \in DOMAIN VIS_MAP
    THEN Classes[VIS_MAP[VisValue(word)]]
    ELSE Classes["M1"]

\* What the estimator reports on a recording whose transmission starts at
\* sample h0: the four header tones, the tones of the VIS word (1100 Hz for
\* 1, 1300 Hz for 0), sync pulses on time, and a picture whose windows read
\* 1900, 1700 and 2300 Hz in turn.
Signal(rate, h0, word) ==
    [hdr |-> [p \in {h0 + SubWindowOffsets(rate)[i] : i \in 1..4} |->
                 IF p - h0 \in {SubWindowOffsets(rate)[1], SubWindowOffsets(rate)[3]}
                 THEN 1900 ELSE 1200],
     vis |-> [p \in {h0 + q : q \in VisSlots(rate)} |->
                 IF word[((p - h0 - ToSamples(HDR_SIZE, rate))
                          \div ToSamples(VIS_BIT_SIZE, rate)) + 1] = 1
                 THEN 1100 ELSE 1300],
     sync |-> [p \in {h0 + q : q \in SyncLows(Announced(word), rate, 0)} |-> 1200],
     pix |-> <<>>,
     bg |-> <<1900, 1700, 2300>>]

\* The recordings: silence, a steady 1900 Hz tone, and the transmissions.
Signals(rate) ==
    {NoEst, [NoEst EXCEPT !.bg = <<1900>>]}
    \cup {Signal(rate, h0, word) : h0 \in HeaderStarts(rate), word \in VisWords}

\* The lengths the recordings are cut at: nothing, the header and three VIS
\* bits of a late transmission, then the picture of a late transmission cut
\* before its first sample, inside the first line, inside the second line
\* and after it (in the longest scan line of the modes, Martin 1's).
Lengths(rate) ==
    {0, 2 * ToSamples(JUMP_SIZE, rate) + ToSamples(HDR_SIZE, rate)
        + 3 * ToSamples(VIS_BIT_SIZE, rate)}
    \cup {2 * ToSamples(JUMP_SIZE, rate) + ImageStart(rate)
          + (k * ToSamples(Classes["M1"].LINE_TIME, rate)) \div 2 : k \in {0, 1, 3, 6}}

\* The skips decode is called with, in samples: none, or one search step.
Skips(rate) == {0, ToSamples(JUMP_SIZE, rate)}

Init ==
    /\ op = "none"
    /\ sample_rate \in SampleRates
    /\ samples \in {WholeBuffer(n) : n \in Lengths(sample_rate)}
    /\ mode = "None"
    /\ est \in Signals(sample_rate)
    /\ arg = [calls |-> 0, skip |-> 0]
    /\ ret = NoRet

\* SSTVDecoder.decode(skip), for a skip of k samples: the buffer is cut
\* first, and the stages run on what is left of it.
Decode(k) ==
    /\ arg.calls < MaxDecodes
    /\ op' = "decode"
    /\ \E buf \in {IF k > 0 THEN Skipped(samples, k) ELSE samples} :
          /\ samples' = buf
          /\ ret' = decode(buf).ret
          /\ mode' = IF decode(buf).mode = "unassigned" THEN mode ELSE decode(buf).mode
    /\ arg' = [calls |-> arg.calls + 1, skip |-> k]
    /\ UNCHANGED <<sample_rate, est>>

Next == \E k \in Skips(sample_rate) : Decode(k)

Spec == Init /\ [][Next]_vars

(***************************************************************************)
(* Properties of the header search, under SpecHdr.                         *)
(***************************************************************************)
SetMin(S) == CHOOSE x \in S : \A y \in S : x <= y

\* The candidate positions of the buffer, and those whose four sub-windows
\* pass the frequency test.
HdrCandidates ==
    {c \in 0..(samples.len - ToSamples(HDR_SIZE, sample_rate) - 1) :
        c % ToSamples(JUMP_SIZE, sample_rate) = 0}

HdrQualifying ==
    {c \in HdrCandidates :
        LET o == SubWindowOffsets(sample_rate)
            f(i) == IF samples.start + c + o[i] \in DOMAIN est.hdr
                    THEN est.hdr[samples.start + c + o[i]] ELSE 0
        IN  /\ f(1) > 1850 /\ f(1) < 1950
            /\ f(2) > 1150 /\ f(2) < 1250
            /\ f(3) > 1850 /\ f(3) < 1950
            /\ f(4) > 1150 /\ f(4) < 1250}

\* C9: _find_header tests the candidates 0, j, 2j, .. in this order, stops
\* at the smallest one whose sub-windows are within 50 Hz of 1900, 1200,
\* 1900 and 1200 Hz and returns it plus the header size; it returns None
\* when no candidate qualifies; a returned offset is within the buffer.
C9_FirstQualifyingCandidate ==
    op = "find_header" =>
        LET j == ToSamples(JUMP_SIZE, sample_rate)
            h == ToSamples(HDR_SIZE, sample_rate)
        IN  /\ \A i \in 1..Len(ret.tested) : ret.tested[i] = (i - 1) * j
            /\ IF HdrQualifying = {}
               THEN /\ ret.kind = "None"
                    /\ Len(ret.tested) = Cardinality(HdrCandidates)
               ELSE /\ ret.kind = "value"
                    /\ ret.val = SetMin(HdrQualifying) + h
                    /\ ret.tested[Len(ret.tested)] = SetMin(HdrQualifying)
            /\ ret.kind = "value" => ret.val <= samples.len

\* The second of three candidates is the first that qualifies.
C9_Witness ==
    /\ op = "find_header"
    /\ ret.kind = "value"
    /\ Len(ret.tested) = 2
    /\ Cardinality(HdrQualifying) >= 2
    /\ ret.val = ToSamples(JUMP_SIZE, sample_rate) + ToSamples(HDR_SIZE, sample_rate)

(***************************************************************************)
(* Properties of the sync aligner, under SpecAlign.                        *)
(***************************************************************************)
\* The window positions of the aligner's range whose estimate exceeds 1350 Hz.
AlignHighs ==
    {p \in arg.align_start .. (samples.len - SyncWindow(Classes[mode]) - 1) :
        PeakFreq(samples, "sync", p) > 1350}

\* C10: an offset _align_sync returns comes from the first window position
\* at or after align_start whose peak exceeds 1350 Hz (its midpoint, less the
\* sync pulse when the start of sync is sought); and _align_sync returns None
\* when the window at align_start would run past the end of the buffer.
C10_OffsetFromFirstHighWindow ==
    op = "align_sync" =>
        /\ ret.kind = "value" =>
              /\ AlignHighs # {}
              /\ ret.val = SetMin(AlignHighs) + (SyncWindow(Classes[mode]) \div 2)
                            - (IF arg.start_of_sync
                               THEN ToSamples(Classes[mode].SYNC_PULSE, sample_rate)
                               ELSE 0)
        /\ arg.align_start + SyncWindow(Classes[mode]) > samples.len => ret.kind = "None"

\* What the code does: the offset comes from the first such position when
\* there is one and from the last position of the range otherwise.
AlignSyncFallsThrough ==
    op = "align_sync" =>
        /\ ret.kind = "value" =>
              ret.val = (IF AlignHighs # {} THEN SetMin(AlignHighs)
                         ELSE samples.len - SyncWindow(Classes[mode]) - 1)
                        + (SyncWindow(Classes[mode]) \div 2)
                        - (IF arg.start_of_sync
                           THEN ToSamples(Classes[mode].SYNC_PULSE, sample_rate)
                           ELSE 0)
        /\ ret.kind = "None" <=> arg.align_start + SyncWindow(Classes[mode]) >= samples.len

(***************************************************************************)
(* Properties of the image decode, under SpecImg.                          *)
(***************************************************************************)
ImageDecoded == op = "decode_image_data"

\* The alignment to the leading sync pulse of a mode that declares one
\* reports the end of the buffer.
LeadingSyncEnds ==
    /\ HasAttr(Classes[mode], "HAS_START_SYNC")
    /\ Classes[mode].HAS_START_SYNC
    /\ align_sync(samples, Classes[mode], arg.image_start, FALSE).kind = "None"

\* C5: whenever the image decode runs out of samples, in the alignment to
\* the leading sync pulse, in the alignment of a line or in a pixel window,
\* _decode_image_data returns the luminance buffer and raises no error.
C5_TruncationReturnsBuffer ==
    ImageDecoded =>
        /\ LeadingSyncEnds => ret.kind = "value"
        /\ ret.kind = "value" /\ ~ ret.complete => DOMAIN ret.val = Cells(Classes[mode])

\* The i-th cell of the scan order of mode m: line, then channel, then pixel.
CellAt(m, i) ==
    <<(i - 1) \div (m.CHAN_COUNT * ScanWidth(m)),
      ((i - 1) \div ScanWidth(m)) % m.CHAN_COUNT,
      (i - 1) % ScanWidth(m)>>

\* C13: in every image decode that returns, the channel-sync alignments are
\* one per line, in line order from line 0, on the channel CHAN_SYNC; each
\* alignment after the first starts LINE_TIME after the cursor the previous
\* one left, and leaves the cursor strictly greater than the previous one
\* did, whether or not its search found a window above 1350 Hz.
C13_CursorAdvancesPerLine ==
    (op = "decode_image_data" /\ ret.kind = "value") =>
        /\ Len(ret.aligns) <= ScanHeight(Classes[mode])
        /\ ret.complete => Len(ret.aligns) = ScanHeight(Classes[mode])
        /\ \A i \in DOMAIN ret.aligns :
              /\ ret.aligns[i].line = i - 1
              /\ ret.aligns[i].chan = Classes[mode].CHAN_SYNC
              /\ i > 1 =>
                    /\ ret.aligns[i].start =
                          ret.aligns[i - 1].val
                          + ToSamples(Classes[mode].LINE_TIME, sample_rate)
                    /\ ret.aligns[i].start > ret.aligns[i - 1].val
                    /\ ret.aligns[i].val > ret.aligns[i - 1].val

\* A decode with two alignments, the second of which found no window above
\* 1350 Hz and still left the cursor further on.
C13_Witness ==
    /\ op = "decode_image_data"
    /\ ret.kind = "value"
    /\ Len(ret.aligns) >= 2
    /\ ret.aligns[1].found
    /\ ~ ret.aligns[2].found
    /\ ret.aligns[2].val > ret.aligns[1].val

\* C6: a buffer returned from a decode truncated on line N has the full
\* dimensions of the mode; the cells written are the first cells of the
\* scan order, each written once, and they cover lines 0..N-1 and stop on
\* line N; every cell not written holds 0.
C6_TruncatedBufferPrefix ==
    ImageDecoded /\ ret.kind = "value" /\ ~ ret.complete =>
        /\ DOMAIN ret.val = Cells(Classes[mode])
        /\ \A i \in 1..Len(ret.writes) : ret.writes[i] = CellAt(Classes[mode], i)
        /\ Len(ret.writes) >= ret.stop.line * Classes[mode].CHAN_COUNT * ScanWidth(Classes[mode])
        /\ Len(ret.writes) < (ret.stop.line + 1) * Classes[mode].CHAN_COUNT * ScanWidth(Classes[mode])
        /\ \A c \in Cells(Classes[mode]) :
              (\A i \in 1..Len(ret.writes) : ret.writes[i] # c) => ret.val[c] = 0

\* A decode cut in a pixel window of the second line, after a first line of
\* pixels that are not all black.
C6_Witness ==
    /\ ImageDecoded
    /\ ret.kind = "value"
    /\ ~ ret.complete
    /\ ret.stop.line = 1
    /\ ret.stop.why = "pixel"
    /\ Len(ret.writes) > Classes[mode].CHAN_COUNT * ScanWidth(Classes[mode])
    /\ \E c \in Cells(Classes[mode]) : ret.val[c] # 0
    /\ \E c \in Cells(Classes[mode]) : ret.val[c] = 0 /\ c[1] = 1

(***************************************************************************)
(* Properties of decode, under Spec.                                       *)
(***************************************************************************)
StageOrder == <<"find_header", "decode_vis", "decode_image_data", "draw_image">>

\* No candidate position of the buffer passes the header test.
NoQualifyingWindow == \A c \in HdrCandidates : ~ HeaderTonesMatch(samples, c)

\* C4: when the header search finds no qualifying window, decode returns
\* None without raising, having run the header search alone, and leaves the
\* session's mode as it was (absent when it was absent); the stages decode
\* runs are always the first ones of header search, VIS decode, image
\* decode and image assembly, in this order.
C4_NoHeaderReturnsNone ==
    /\ [](op = "decode" =>
            /\ Len(ret.stages) >= 1
            /\ ret.stages = SubSeq(StageOrder, 1, Len(ret.stages))
            /\ NoQualifyingWindow =>
                  /\ ret.stages = <<"find_header">>
                  /\ ret.kind = "value"
                  /\ ret.val = "None")
    /\ [][op' = "decode" /\ NoQualifyingWindow' => mode' = mode]_vars

\* A first decode that tests candidates of a recording and finds no header:
\* the session's mode is absent afterwards.
C4_Witness ==
    /\ op = "decode"
    /\ arg.calls = 1
    /\ HdrCandidates # {}
    /\ NoQualifyingWindow
    /\ ret.stages = <<"find_header">>
    /\ ret.val = "None"
    /\ mode = "None"

\* C14: no call of decode changes the session's sample buffer, neither its
\* contents nor its length, whatever skip it is given and however it ends.
C14_DecodeLeavesSamplesAlone ==
    [][op' = "decode" => samples' = samples]_vars

\* C15: whenever decode has resolved a mode from VIS_MAP, the mode has every
\* attribute the image decode reads (HALF_PIXEL_TIME when HAS_HALF_SCAN) and
\* its colour format, CHAN_OFFSETS has CHAN_COUNT entries, the colour format
\* and channel count bind the pixel in the image assembly, and the call does
\* not end in an AttributeError or an UnboundLocalError.
C15_ResolvedModeIsComplete ==
    (op = "decode" /\ Len(ret.stages) >= 3) =>
        /\ \A a \in HeadAttrs \cup {"COLOR"} : HasAttr(Classes[mode], a)
        /\ \A a \in LoopAttrs(Classes[mode]) : HasAttr(Classes[mode], a)
        /\ Len(Classes[mode].CHAN_OFFSETS) = Classes[mode].CHAN_COUNT
        /\ PixelBound(Classes[mode])
        /\ ~ (ret.kind = "raise" /\ ret.err \in {"AttributeError", "UnboundLocalError"})

(***************************************************************************)
(* Specification SpecDraw: image assembly, in every mode whose image       *)
(* decode can return a buffer, on buffers whose cells all differ.          *)
(***************************************************************************)
\* The modes in which _decode_image_data finds every attribute it reads.
DrawModes ==
    {c \in RegisteredModes :
        /\ \A a \in HeadAttrs : HasAttr(Classes[c], a)
        /\ \A a \in LoopAttrs(Classes[c]) : HasAttr(Classes[c], a)}

\* The luminance buffers of mode m in which the cell (line, chan, px) holds
\* seed + 36 * line + 6 * chan + px: no two cells of a buffer are equal.
Pictures(m) ==
    {[c \in Cells(m) |-> seed + 36 * c[1] + 6 * c[2] + c[3]] : seed \in 1..MaxShade}

InitDraw ==
    /\ op = "none"
    /\ sample_rate \in SampleRates
    /\ samples = WholeBuffer(0)
    /\ mode \in DrawModes
    /\ est = NoEst
    /\ \E image_data \in Pictures(Classes[mode]) : arg = [image_data |-> image_data]
    /\ ret = NoRet

\* decode, line 84: return self._draw_image(image_data)
DrawImage ==
    /\ op = "none"
    /\ op' = "draw_image"
    /\ ret' = draw_image(Classes[mode], arg.image_data)
    /\ UNCHANGED <<sample_rate, samples, mode, est, arg>>

NextDraw == DrawImage

SpecDraw == InitDraw /\ [][NextDraw]_vars

(***************************************************************************)
(* Properties of the image assembly, under SpecDraw.                       *)
(***************************************************************************)
\* An image assembled in a two-channel YUV mode with alternate scan.
AltScanDrawn ==
    /\ op = "draw_image"
    /\ ret.kind = "value"
    /\ Classes[mode].CHAN_COUNT = 2
    /\ Classes[mode].HAS_ALT_SCAN
    /\ Classes[mode].COLOR = COL_FMT.YUV

\* Every line the alternate-scan branch reads, for every line of the image,
\* is a line of the buffer.
AltScanLinesInRange ==
    \A y \in 0..(Classes[mode].LINE_COUNT - 1) :
        \A i \in 1..3 : AltScanLines(y)[i] \in 0..(Classes[mode].LINE_COUNT - 1)

\* C11 as stated: luma comes from channel 0 of the line; on odd lines one
\* chroma component comes from channel 1 of the next line, on even lines
\* both come from channel 1 of the line itself; the lines read are in range.
C11_OddLinesBorrowNext ==
    AltScanDrawn =>
        /\ AltScanLinesInRange
        /\ \A xy \in DOMAIN ret.val.pixel_data :
              /\ ret.val.pixel_data[xy][1] = Cell(arg.image_data, xy[2], 0, xy[1])
              /\ xy[2] % 2 = 1 =>
                    \/ ret.val.pixel_data[xy][2] = Cell(arg.image_data, xy[2] + 1, 1, xy[1])
                    \/ ret.val.pixel_data[xy][3] = Cell(arg.image_data, xy[2] + 1, 1, xy[1])
              /\ xy[2] % 2 = 0 =>
                    /\ ret.val.pixel_data[xy][2] = Cell(arg.image_data, xy[2], 1, xy[1])
                    /\ ret.val.pixel_data[xy][3] = Cell(arg.image_data, xy[2], 1, xy[1])

\* C11, amended: luma comes from channel 0 of the line; on even lines
\* (y % 2 = 0) the second component comes from channel 1 of the next line
\* and the third from channel 1 of the line itself; on odd lines the second
\* comes from channel 1 of the line itself and the third from channel 1 of
\* the line before; the lines read are in range.
C11_EvenLinesBorrowNext ==
    AltScanDrawn =>
        /\ AltScanLinesInRange
        /\ \A xy \in DOMAIN ret.val.pixel_data :
              /\ ret.val.pixel_data[xy][1] = Cell(arg.image_data, xy[2], 0, xy[1])
              /\ xy[2] % 2 = 0 =>
                    /\ ret.val.pixel_data[xy][2] = Cell(arg.image_data, xy[2] + 1, 1, xy[1])
                    /\ ret.val.pixel_data[xy][3] = Cell(arg.image_data, xy[2], 1, xy[1])
              /\ xy[2] % 2 = 1 =>
                    /\ ret.val.pixel_data[xy][2] = Cell(arg.image_data, xy[2], 1, xy[1])
                    /\ ret.val.pixel_data[xy][3] = Cell(arg.image_data, xy[2] - 1, 1, xy[1])

\* A Robot 36 image of two lines: the pixel of line 0 borrows from line 1,
\* the pixel of line 1 from line 0.
C11_Witness ==
    /\ AltScanDrawn
    /\ mode = "R36"
    /\ ret.val.pixel_data[<<0, 0>>][2] = arg.image_data[<<1, 1, 0>>]
    /\ ret.val.pixel_data[<<0, 1>>][3] = arg.image_data[<<0, 1, 0>>]
    /\ arg.image_data[<<1, 1, 0>>] # arg.image_data[<<0, 1, 0>>]

====
